---------------------------- MODULE Spec2Model ----------------------------
(***************************************************************************)
(* Model of the damped-oscillation analyser (src/index.tsx): the text      *)
(* parser, the moving-average smoother, the signal pipeline processSignal, *)
(* the envelope fit fitExponentialCurve, the metrics of the fitResults     *)
(* memo and the App component's state.                                     *)
(*                                                                         *)
(* Numbers.  JavaScript numbers are IEEE doubles; here they are exact:     *)
(*   Dec  [m |-> mantissa, e |-> exponent]  the decimal m * 10^e that      *)
(*        parseFloat reads from a token (kept decimal so that 1e30 and     *)
(*        2e308 can be written with small integers),                       *)
(*   Rat  <<n, d>>  a fraction in lowest terms, d > 0, used by the         *)
(*        pipeline,                                                        *)
(*   LReal a finite linear form  c1 * 1 + SUM c_p * ln(p)  over primes p   *)
(*        with Rat coefficients, the exact value of sums of logarithms of  *)
(*        positive rationals (used by the fit and the metrics).            *)
(* Rounding of doubles is not modelled; overflow of a parsed token to      *)
(* Infinity and the 1e30 clipping threshold are.                           *)
(***************************************************************************)
EXTENDS Integers, Sequences, FiniteSets, TLC

\* null: a record, so that it compares with every record-valued result
Null == [null |-> TRUE]

\* --------------------------------------------------------------------------
\* Exact rational arithmetic (the JavaScript number operators of the pipeline)
\* --------------------------------------------------------------------------
IAbs(n) == IF n < 0 THEN -n ELSE n

RECURSIVE GCD(_, _)
GCD(a, b) == IF b = 0 THEN a ELSE GCD(b, a % b)

Norm(n, d) ==
    LET s == IF d < 0 THEN -1 ELSE 1
        g == GCD(IAbs(n), IAbs(d))
    IN  IF n = 0 THEN <<0, 1>> ELSE <<(s * n) \div g, (s * d) \div g>>

R(n) == <<n, 1>>
Zero == R(0)

RAdd(a, b) == Norm(a[1] * b[2] + b[1] * a[2], a[2] * b[2])
RSub(a, b) == Norm(a[1] * b[2] - b[1] * a[2], a[2] * b[2])
RNeg(a) == <<-a[1], a[2]>>
RMul(a, b) ==
    LET g1 == GCD(IAbs(a[1]), b[2])
        g2 == GCD(IAbs(b[1]), a[2])
    IN  IF a[1] = 0 \/ b[1] = 0 THEN Zero
        ELSE Norm((a[1] \div g1) * (b[1] \div g2), (a[2] \div g2) * (b[2] \div g1))
\* b must not be zero: every use is guarded as the code guards it
RDiv(a, b) == RMul(a, Norm(b[2], b[1]))
RLt(a, b) == a[1] * b[2] < b[1] * a[2]
RLe(a, b) == a[1] * b[2] <= b[1] * a[2]
RAbs(a) == <<IAbs(a[1]), a[2]>>

RECURSIVE RSumFrom(_, _, _)
RSumFrom(s, lo, hi) ==
    IF lo > hi THEN Zero
    ELSE IF lo = hi THEN s[lo]
    ELSE RAdd(RSumFrom(s, lo, (lo + hi) \div 2), RSumFrom(s, (lo + hi) \div 2 + 1, hi))

IMax(a, b) == IF a > b THEN a ELSE b
IMin(a, b) == IF a < b THEN a ELSE b

\* --------------------------------------------------------------------------
\* Decimal numbers as parseFloat reads them
\* --------------------------------------------------------------------------
RECURSIVE Pow10(_)
Pow10(k) == IF k = 0 THEN 1 ELSE 10 * Pow10(k - 1)

RECURSIVE DecNorm(_, _)
DecNorm(m, e) ==
    IF m = 0 THEN [m |-> 0, e |-> 0]
    ELSE IF m % 10 = 0 THEN DecNorm(m \div 10, e + 1)
    ELSE [m |-> m, e |-> e]

D(n) == DecNorm(n, 0)

DecAdd(a, b) ==
    LET e == IMin(a.e, b.e)
    IN  DecNorm(a.m * Pow10(a.e - e) + b.m * Pow10(b.e - e), e)

DecHalf(a) == DecNorm(a.m * 5, a.e - 1)

ToRat(a) == IF a.e >= 0 THEN R(a.m * Pow10(a.e)) ELSE Norm(a.m, Pow10(-a.e))

\* --------------------------------------------------------------------------
\* smoothSignal
\* --------------------------------------------------------------------------
\* start and end of the inner loop for the 0-based index i: j runs over start..end-1
SmoothStart(i, windowSize) == IMax(0, i - (windowSize \div 2))

\* a faulty variant of SmoothEnd: the window stops one sample early
SmoothEndShort(n, i, windowSize) == IMin(n, i + (windowSize \div 2))

SmoothEnd(n, i, windowSize) == IMin(n, i + (windowSize \div 2) + 1)

SmoothSignal(values, windowSize) ==
    IF windowSize <= 1 THEN values
    ELSE [i \in 1..Len(values) |->
            \* 0-based index i-1; start, end are the code's 0-based bounds
            LET start == SmoothStart(i - 1, windowSize)
                end == SmoothEnd(Len(values), i - 1, windowSize)
            IN  RDiv(RSumFrom(values, start + 1, end), R(end - start))]

\* the 0-based indices values[j] that the call reads for each output element
\* (none when the input is returned as it is)
SmoothReads(values, windowSize) ==
    IF windowSize <= 1 THEN <<>>
    ELSE [i \in 1..Len(values) |->
            SmoothStart(i - 1, windowSize)..(SmoothEnd(Len(values), i - 1, windowSize) - 1)]

\* --------------------------------------------------------------------------
\* processSignal, stage by stage
\* --------------------------------------------------------------------------
Micro == 1000000

TRaw(rawData) == [i \in 1..Len(rawData) |-> RMul(ToRat(rawData[i].time), R(Micro))]

UOriginal(rawData, invert) ==
    [i \in 1..Len(rawData) |->
        IF invert THEN RNeg(ToRat(rawData[i].voltage)) ELSE ToRat(rawData[i].voltage)]

TailPercentDivisor == 5
TailMinSamples == 10

\* a faulty variant of TailSampleCount: always the minimum count
TailSampleCountFixed(n) == TailMinSamples

TailSampleCount(n) == IMax(n \div TailPercentDivisor, TailMinSamples)

\* slice(-k) keeps the last k elements, or all of them when k exceeds the length
MeanVoltage(u_processed) ==
    LET n == Len(u_processed)
        k == IMin(TailSampleCount(n), n)
    IN  RDiv(RSumFrom(u_processed, n - k + 1, n), R(k))

\* idx is the code's 0-based index of the sample before the crossing
CrossingAt(t_raw, u, mean, i) ==
    LET y1 == u[i]
        y2 == u[i + 1]
        t1 == t_raw[i]
        t2 == t_raw[i + 1]
        fraction == RDiv(RSub(mean, y1), RSub(y2, y1))
    IN  [t |-> RAdd(t1, RMul(fraction, RSub(t2, t1))), idx |-> i - 1]

IsRising(u, mean, i) == RLe(u[i], mean) /\ RLt(mean, u[i + 1])

RECURSIVE RawCrossingsFrom(_, _, _, _)
RawCrossingsFrom(t_raw, u, mean, i) ==
    IF i > Len(u) - 1 THEN <<>>
    ELSE IF IsRising(u, mean, i)
         THEN <<CrossingAt(t_raw, u, mean, i)>> \o RawCrossingsFrom(t_raw, u, mean, i + 1)
         ELSE RawCrossingsFrom(t_raw, u, mean, i + 1)

RawCrossings(t_raw, u, mean) == RawCrossingsFrom(t_raw, u, mean, 1)

\* a faulty variant of WithinTolerance: a deviation equal to the tolerance breaks
WithinToleranceStrict(current, lastValid, T_ref, tolerancePct) ==
    LET currentPeriod == RSub(current.t, lastValid.t)
        deviation == RAbs(RSub(currentPeriod, T_ref))
        allowedDeviation == RMul(T_ref, tolerancePct)
    IN  RLt(deviation, allowedDeviation)

WithinTolerance(current, lastValid, T_ref, tolerancePct) ==
    LET currentPeriod == RSub(current.t, lastValid.t)
        deviation == RAbs(RSub(currentPeriod, T_ref))
        allowedDeviation == RMul(T_ref, tolerancePct)
    IN  RLe(deviation, allowedDeviation)

\* a faulty variant of LockLoop: a crossing out of tolerance is skipped and the loop goes on
RECURSIVE LockLoopSkip(_, _, _, _, _)
LockLoopSkip(raw, valid, i, T_ref, tolerancePct) ==
    IF i > Len(raw) THEN valid
    ELSE IF WithinTolerance(raw[i], valid[Len(valid)], T_ref, tolerancePct)
         THEN LockLoopSkip(raw, Append(valid, raw[i]), i + 1, T_ref, tolerancePct)
         ELSE LockLoopSkip(raw, valid, i + 1, T_ref, tolerancePct)

\* the for loop of step 5: i is the 1-based index of the next raw crossing
RECURSIVE LockLoop(_, _, _, _, _)
LockLoop(raw, valid, i, T_ref, tolerancePct) ==
    IF i > Len(raw) THEN valid
    ELSE IF WithinTolerance(raw[i], valid[Len(valid)], T_ref, tolerancePct)
         THEN LockLoop(raw, Append(valid, raw[i]), i + 1, T_ref, tolerancePct)
         ELSE valid

ValidCrossings(raw, tolerancePct) ==
    IF Len(raw) >= 2
    THEN LockLoop(raw, <<raw[1], raw[2]>>, 3, RSub(raw[2].t, raw[1].t), tolerancePct)
    ELSE <<>>

\* -Infinity as the fraction -1/0: RLt(NegInfinity, x) holds for every Rat x
NegInfinity == <<-1, 0>>

\* a faulty variant of MaxScan: a later sample equal to the maximum replaces it
RECURSIVE MaxScanLast(_, _, _, _, _)
MaxScanLast(u, j, endIdx, maxVal, maxIdx) ==
    IF j > endIdx THEN [maxVal |-> maxVal, maxIdx |-> maxIdx]
    ELSE IF RLe(maxVal, u[j + 1])
         THEN MaxScanLast(u, j + 1, endIdx, u[j + 1], j)
         ELSE MaxScanLast(u, j + 1, endIdx, maxVal, maxIdx)

\* the inner scan of step 6 over the 0-based indices j..endIdx
RECURSIVE MaxScan(_, _, _, _, _)
MaxScan(u, j, endIdx, maxVal, maxIdx) ==
    IF j > endIdx THEN [maxVal |-> maxVal, maxIdx |-> maxIdx]
    ELSE IF RLt(maxVal, u[j + 1])
         THEN MaxScan(u, j + 1, endIdx, u[j + 1], j)
         ELSE MaxScan(u, j + 1, endIdx, maxVal, maxIdx)

RECURSIVE PeaksFrom(_, _, _, _, _)
PeaksFrom(t_raw, u, mean, valid, i) ==
    IF i > Len(valid) - 1 THEN <<>>
    ELSE LET m == MaxScan(u, valid[i].idx, valid[i + 1].idx, NegInfinity, -1)
             rest == PeaksFrom(t_raw, u, mean, valid, i + 1)
         IN  IF m.maxIdx # -1 /\ RLt(mean, m.maxVal)
             THEN <<[x |-> t_raw[m.maxIdx + 1], y |-> m.maxVal]>> \o rest
             ELSE rest

\* a faulty variant of Peaks: one more interval, from the last crossing to the last sample
PeaksToEnd(t_raw, u, mean, valid) ==
    IF Len(valid) >= 2
    THEN PeaksFrom(t_raw, u, mean, Append(valid, [t |-> Zero, idx |-> Len(u) - 1]), 1)
    ELSE <<>>

Peaks(t_raw, u, mean, valid) ==
    IF Len(valid) >= 2 THEN PeaksFrom(t_raw, u, mean, valid, 1) ELSE <<>>

\* a faulty variant of AvgPeriodUs: the sum of periods is divided by the number of crossings
AvgPeriodPerCrossing(valid) ==
    IF Len(valid) >= 2
    THEN RDiv(RSumFrom([i \in 1..(Len(valid) - 1) |-> RSub(valid[i + 1].t, valid[i].t)],
                       1, Len(valid) - 1),
              R(Len(valid)))
    ELSE Zero

\* step 7: the mean of the successive differences of the valid crossing times
AvgPeriodUs(valid) ==
    IF Len(valid) >= 2
    THEN RDiv(RSumFrom([i \in 1..(Len(valid) - 1) |-> RSub(valid[i + 1].t, valid[i].t)],
                       1, Len(valid) - 1),
              R(Len(valid) - 1))
    ELSE Zero

\* a faulty variant of TimeOffset: always the first sample's time
TimeOffsetFirstSample(t_raw, valid) ==
    IF Len(t_raw) > 0 THEN t_raw[1] ELSE Zero

TimeOffset(t_raw, valid) ==
    IF Len(valid) > 0 THEN valid[1].t
    ELSE IF Len(t_raw) > 0 THEN t_raw[1]
    ELSE Zero

\* a faulty variant of NormalizedMean: the un-normalized baseline is reported
NormalizedMeanRaw(meanVoltage) == meanVoltage

\* line 208: the reported meanVoltage is the literal 0
NormalizedMean(meanVoltage) == Zero

ProcessSignal(rawData, smoothingWindowArg, periodTolerancePct, invert) ==
    IF Len(rawData) = 0 THEN Null
    ELSE
    LET t_raw == TRaw(rawData)
        u_original == UOriginal(rawData, invert)
        u_processed == SmoothSignal(u_original, smoothingWindowArg)
        meanVoltage == MeanVoltage(u_processed)
        rawCrossings == RawCrossings(t_raw, u_processed, meanVoltage)
        validCrossings == ValidCrossings(rawCrossings, periodTolerancePct)
        peaks == Peaks(t_raw, u_processed, meanVoltage, validCrossings)
        t_offset == TimeOffset(t_raw, validCrossings)
        u_offset == meanVoltage
    IN  [t |-> [i \in 1..Len(t_raw) |-> RSub(t_raw[i], t_offset)],
         u_raw |-> [i \in 1..Len(u_original) |-> RSub(u_original[i], u_offset)],
         u_smooth |-> [i \in 1..Len(u_processed) |-> RSub(u_processed[i], u_offset)],
         peaks |-> [i \in 1..Len(peaks) |->
                      [x |-> RSub(peaks[i].x, t_offset), y |-> RSub(peaks[i].y, u_offset)]],
         zeroCrossings |-> [i \in 1..Len(validCrossings) |->
                      [t |-> RSub(validCrossings[i].t, t_offset), idx |-> validCrossings[i].idx]],
         meanVoltage |-> NormalizedMean(meanVoltage),
         avgPeriodUs |-> AvgPeriodUs(validCrossings),
         isInverted |-> invert]

\* --------------------------------------------------------------------------
\* Exact values of sums of logarithms: a linear form over 1 and ln(prime)
\* --------------------------------------------------------------------------
\* key 1 carries the rational part, key p the coefficient of ln(p), key 0 marks
\* a value that is not a finite real (the logarithm of a non-positive number)
LZero == [k \in {} |-> Zero]
LNotFinite == [k \in {0} |-> R(1)]
LIsFinite(f) == 0 \notin DOMAIN f
LCoef(f, k) == IF k \in DOMAIN f THEN f[k] ELSE Zero
LRat(r) == IF r = Zero THEN LZero ELSE [k \in {1} |-> r]

LAdd(f, g) ==
    IF ~LIsFinite(f) \/ ~LIsFinite(g) THEN LNotFinite
    ELSE LET K == {k \in DOMAIN f \cup DOMAIN g : RAdd(LCoef(f, k), LCoef(g, k)) # Zero}
         IN  [k \in K |-> RAdd(LCoef(f, k), LCoef(g, k))]

LScale(f, r) ==
    IF ~LIsFinite(f) THEN LNotFinite
    ELSE IF r = Zero THEN LZero
    ELSE [k \in DOMAIN f |-> RMul(f[k], r)]

LSub(f, g) == LAdd(f, LScale(g, R(-1)))

\* the exponent of the prime p in n >= 1
RECURSIVE Vp(_, _)
Vp(n, p) == IF n % p = 0 THEN 1 + Vp(n \div p, p) ELSE 0

IsPrime(p) == p >= 2 /\ \A q \in 2..(p - 1) : p % q # 0

\* Math.log of a Rat: ln(n/d) = SUM (Vp(n,p) - Vp(d,p)) * ln(p)
LLn(r) ==
    IF ~RLt(Zero, r) THEN LNotFinite
    ELSE LET P == {p \in 2..IMax(r[1], r[2]) : IsPrime(p) /\ (r[1] % p = 0 \/ r[2] % p = 0)}
         IN  [p \in P |-> R(Vp(r[1], p) - Vp(r[2], p))]

RECURSIVE IPow(_, _)
IPow(b, k) == IF k = 0 THEN 1 ELSE b * IPow(b, k - 1)

RECURSIVE IProd(_, _)
IProd(f, K) ==
    IF K = {} THEN 1
    ELSE LET k == CHOOSE x \in K : TRUE IN f[k] * IProd(f, K \ {k})

RECURSIVE LcmDen(_, _)
LcmDen(f, K) ==
    IF K = {} THEN 1
    ELSE LET k == CHOOSE x \in K : TRUE
             l == LcmDen(f, K \ {k})
         IN  (l \div GCD(l, f[k][2])) * f[k][2]

RECURSIVE GcdOf(_, _)
GcdOf(f, K) ==
    IF K = {} THEN 0
    ELSE LET k == CHOOSE x \in K : TRUE IN GCD(IAbs(f[k]), GcdOf(f, K \ {k}))

\* the sign of a form that is a rational, or a combination of logarithms only:
\* SUM c_p ln(p) > 0 iff PROD p^(e_p) > 1, the e_p the coefficients scaled to
\* coprime integers
LSign(f) ==
    CASE DOMAIN f = {} -> 0
      [] DOMAIN f = {1} -> IF f[1][1] > 0 THEN 1 ELSE -1
      [] LIsFinite(f) /\ 1 \notin DOMAIN f ->
            LET L == LcmDen(f, DOMAIN f)
                n == [p \in DOMAIN f |-> f[p][1] * (L \div f[p][2])]
                g == GcdOf(n, DOMAIN f)
                e == [p \in DOMAIN f |-> n[p] \div g]
                up == IProd([p \in DOMAIN f |-> IF e[p] > 0 THEN IPow(p, e[p]) ELSE 1], DOMAIN f)
                dn == IProd([p \in DOMAIN f |-> IF e[p] < 0 THEN IPow(p, -e[p]) ELSE 1], DOMAIN f)
            IN  IF up > dn THEN 1 ELSE -1

\* Math.abs
LAbs(f) == IF LSign(f) < 0 THEN LScale(f, R(-1)) ELSE f

\* Math.exp, kept symbolic
LExp(f) == [exp |-> f]

\* --------------------------------------------------------------------------
\* fitExponentialCurve
\* --------------------------------------------------------------------------
\* a const binding: F applied to the value of v, v computed once
With(v, F(_)) == CHOOSE r \in {F(x) : x \in {v}} : TRUE

FitSums0 == [sumT |-> Zero, sumLnY |-> LZero, sumTLnY |-> LZero, sumT2 |-> Zero,
             count |-> 0, logArgs |-> <<>>]

\* a faulty variant of FitStep: a peak at the baseline (y = C) contributes too
FitStepAtOrAbove(acc, p, C) ==
    IF RLe(C, p.y)
    THEN With(LLn(RSub(p.y, C)), LAMBDA lnY :
              [acc EXCEPT !.sumT = RAdd(@, p.x),
                          !.sumLnY = LAdd(@, lnY),
                          !.sumTLnY = LAdd(@, LScale(lnY, p.x)),
                          !.sumT2 = RAdd(@, RMul(p.x, p.x)),
                          !.count = @ + 1,
                          !.logArgs = Append(@, RSub(p.y, C))])
    ELSE acc

\* the body of the for loop for one peak p; logArgs records every argument
\* handed to Math.log
FitStep(acc, p, C) ==
    IF RLt(C, p.y)
    THEN With(LLn(RSub(p.y, C)), LAMBDA lnY :
              [acc EXCEPT !.sumT = RAdd(@, p.x),
                          !.sumLnY = LAdd(@, lnY),
                          !.sumTLnY = LAdd(@, LScale(lnY, p.x)),
                          !.sumT2 = RAdd(@, RMul(p.x, p.x)),
                          !.count = @ + 1,
                          !.logArgs = Append(@, RSub(p.y, C))])
    ELSE acc

RECURSIVE FitSums(_, _, _, _)
FitSums(peaks, C, i, acc) ==
    IF i > Len(peaks) THEN acc
    ELSE With(FitStep(acc, peaks[i], C), LAMBDA next : FitSums(peaks, C, i + 1, next))

FitDenominator(sums) == RSub(RMul(R(sums.count), sums.sumT2), RMul(sums.sumT, sums.sumT))

\* the call with what it did: result, the arguments of Math.log and the divisors
FitRun(peaks, meanVoltage) ==
    IF Len(peaks) < 2 THEN [result |-> Null, logArgs |-> <<>>, divisors |-> <<>>]
    ELSE
    With(FitSums(peaks, meanVoltage, 1, FitSums0), LAMBDA sums :
    With(FitDenominator(sums), LAMBDA denominator :
    LET C == meanVoltage
    IN  IF sums.count < 2 THEN [result |-> Null, logArgs |-> sums.logArgs, divisors |-> <<>>]
        ELSE IF denominator = Zero
        THEN [result |-> Null, logArgs |-> sums.logArgs, divisors |-> <<>>]
        ELSE With(LScale(LSub(LScale(sums.sumTLnY, R(sums.count)),
                              LScale(sums.sumLnY, sums.sumT)),
                         RDiv(R(1), denominator)), LAMBDA beta :
             LET lnA == LScale(LSub(sums.sumLnY, LScale(beta, sums.sumT)),
                               RDiv(R(1), R(sums.count)))
             IN  [result |-> [A |-> LExp(lnA), beta |-> beta, C |-> C],
                  logArgs |-> sums.logArgs,
                  divisors |-> <<denominator, R(sums.count)>>])))

FitExponentialCurve(peaks, meanVoltage) == FitRun(peaks, meanVoltage).result

\* --------------------------------------------------------------------------
\* the fitResults memo of App
\* --------------------------------------------------------------------------
MicroInv == 1000000
Kilo == 1000

\* a faulty variant of DeriveMetrics: the sign of beta is kept (no Math.abs)
DeriveMetricsSigned(fit, avgPeriodUs, peaks) ==
    IF fit # Null /\ RLt(Zero, avgPeriodUs)
    THEN With(LScale(fit.beta, avgPeriodUs), LAMBDA lambda :
         LET f_hz == RDiv(R(1), RMul(avgPeriodUs, Norm(1, MicroInv)))
             betaSeconds == LScale(lambda, RDiv(R(1), RMul(avgPeriodUs, Norm(1, MicroInv))))
         IN  [frequencyKhz |-> RDiv(f_hz, R(Kilo)),
              beta |-> betaSeconds,
              lambda |-> lambda,
              periodUs |-> avgPeriodUs,
              validCycles |-> Len(peaks)])
    ELSE Null

\* lines 274-288: the metrics for a fit (or null), avgPeriodUs and the peaks
DeriveMetrics(fit, avgPeriodUs, peaks) ==
    IF fit # Null /\ RLt(Zero, avgPeriodUs)
    THEN With(LScale(LAbs(fit.beta), avgPeriodUs), LAMBDA lambda :
         LET f_hz == RDiv(R(1), RMul(avgPeriodUs, Norm(1, MicroInv)))
             betaSeconds == LScale(lambda, RDiv(R(1), RMul(avgPeriodUs, Norm(1, MicroInv))))
         IN  [frequencyKhz |-> RDiv(f_hz, R(Kilo)),
              beta |-> betaSeconds,
              lambda |-> lambda,
              periodUs |-> avgPeriodUs,
              validCycles |-> Len(peaks)])
    ELSE Null

FitResults(processedData) ==
    IF processedData = Null THEN Null
    ELSE IF Len(processedData.peaks) < 2 THEN Null
    ELSE With(FitExponentialCurve(processedData.peaks, processedData.meanVoltage), LAMBDA fit :
              [fit |-> fit,
               metrics |-> DeriveMetrics(fit, processedData.avgPeriodUs, processedData.peaks)])

\* --------------------------------------------------------------------------
\* parseFileContent: text is a sequence of one-character strings
\* --------------------------------------------------------------------------
Whitespace == {" ", "\t", "\r", "\n"}
Digits == {"0", "1", "2", "3", "4", "5", "6", "7", "8", "9"}
DigitOf(c) ==
    CASE c = "0" -> 0 [] c = "1" -> 1 [] c = "2" -> 2 [] c = "3" -> 3 [] c = "4" -> 4
      [] c = "5" -> 5 [] c = "6" -> 6 [] c = "7" -> 7 [] c = "8" -> 8 [] c = "9" -> 9

\* String.split(sep) for a one-character separator
RECURSIVE SplitAt(_, _)
SplitAt(text, sep) ==
    IF \A i \in 1..Len(text) : text[i] # sep THEN <<text>>
    ELSE LET k == CHOOSE i \in 1..Len(text) :
                      text[i] = sep /\ \A j \in 1..(i - 1) : text[j] # sep
         IN  <<SubSeq(text, 1, k - 1)>> \o SplitAt(SubSeq(text, k + 1, Len(text)), sep)

\* String.trim
RECURSIVE TrimStart(_)
TrimStart(text) ==
    IF text # <<>> /\ text[1] \in Whitespace THEN TrimStart(Tail(text)) ELSE text

RECURSIVE TrimEnd(_)
TrimEnd(text) ==
    IF text # <<>> /\ text[Len(text)] \in Whitespace
    THEN TrimEnd(SubSeq(text, 1, Len(text) - 1)) ELSE text

Trim(text) == TrimEnd(TrimStart(text))

\* String.startsWith
StartsWith(text, prefix) ==
    Len(text) >= Len(prefix) /\ SubSeq(text, 1, Len(prefix)) = prefix

\* a faulty variant of CleanLine: decimal commas are left alone
CleanLineKeepCommas(trimmed) == trimmed

\* replace(/,/g, '.')
CleanLine(trimmed) == [i \in 1..Len(trimmed) |-> IF trimmed[i] = "," THEN "." ELSE trimmed[i]]

\* split(/\s+/): the maximal runs of non-whitespace, with an empty first or last
\* part when the text starts or ends with whitespace
RECURSIVE SplitWhitespace(_)
SplitWhitespace(text) ==
    IF \A i \in 1..Len(text) : text[i] \notin Whitespace THEN <<text>>
    ELSE LET k == CHOOSE i \in 1..Len(text) :
                      text[i] \in Whitespace /\ \A j \in 1..(i - 1) : text[j] \notin Whitespace
             rest == SubSeq(text, k + 1, Len(text))
         IN  <<SubSeq(text, 1, k - 1)>> \o SplitWhitespace(TrimStart(rest))

\* the number of digits of text from position pos on
RECURSIVE CountDigits(_, _)
CountDigits(text, pos) ==
    IF pos <= Len(text) /\ text[pos] \in Digits THEN 1 + CountDigits(text, pos + 1) ELSE 0

\* the value of the n digits of text from position pos on
RECURSIVE DigitsValue(_, _, _)
DigitsValue(text, pos, n) ==
    IF n = 0 THEN 0
    ELSE 10 * DigitsValue(text, pos, n - 1) + DigitOf(text[pos + n - 1])

RECURSIVE NumDigits(_)
NumDigits(m) == IF m < 10 THEN 1 ELSE 1 + NumDigits(m \div 10)

\* the exponent E of a normalised Dec written d.ddd * 10^E
SciExp(a) == a.e + NumDigits(IAbs(a.m)) - 1

\* |a| exceeds Number.MAX_VALUE = 1.7976931348623157e308, so that parseFloat
\* returns Infinity (for mantissas of up to 9 digits)
Overflows(a) ==
    /\ a.m # 0
    /\ \/ SciExp(a) > 308
       \/ /\ SciExp(a) = 308
          /\ IAbs(a.m) * Pow10(9 - NumDigits(IAbs(a.m))) > 179769313

NaN == [kind |-> "NaN"]
Infinity == [kind |-> "Infinity"]
Num(a) == [kind |-> "number", val |-> a]

\* parseFloat: an optional sign, then Infinity or digits[.digits][e[sign]digits];
\* the longest such prefix counts and anything after it is ignored
ParseFloat(token) ==
    LET hasSign == token # <<>> /\ token[1] \in {"+", "-"}
        sgn == IF hasSign /\ token[1] = "-" THEN -1 ELSE 1
        p0 == IF hasSign THEN 2 ELSE 1
        ni == CountDigits(token, p0)
        p1 == p0 + ni
        hasDot == p1 <= Len(token) /\ token[p1] = "."
        nf == IF hasDot THEN CountDigits(token, p1 + 1) ELSE 0
        p2 == IF hasDot THEN p1 + 1 + nf ELSE p1
        hasE == p2 <= Len(token) /\ token[p2] \in {"e", "E"}
        hasESign == hasE /\ p2 + 1 <= Len(token) /\ token[p2 + 1] \in {"+", "-"}
        esgn == IF hasESign /\ token[p2 + 1] = "-" THEN -1 ELSE 1
        p3 == IF hasESign THEN p2 + 2 ELSE p2 + 1
        ne == IF hasE THEN CountDigits(token, p3) ELSE 0
        exp == IF ne > 0 THEN esgn * DigitsValue(token, p3, ne) ELSE 0
        m == DigitsValue(token, p0, ni) * Pow10(nf) + DigitsValue(token, p1 + 1, nf)
        a == DecNorm(sgn * m, exp - nf)
    IN  IF StartsWith(SubSeq(token, p0, Len(token)),
                      <<"I", "n", "f", "i", "n", "i", "t", "y">>) THEN Infinity
        ELSE IF ni + nf = 0 THEN NaN
        ELSE IF Overflows(a) THEN Infinity
        ELSE Num(a)

\* Number.isFinite
IsFinite(x) == x.kind = "number"

ClipExp == 30

\* Math.abs(v) > 1e30, for a normalised Dec
AbsAbove1e30(a) ==
    a.m # 0 /\ (SciExp(a) > ClipExp \/ (SciExp(a) = ClipExp /\ IAbs(a.m) # 1))

\* Math.abs(v) < 1e30
AbsBelow1e30(a) == a.m = 0 \/ SciExp(a) < ClipExp

\* the body of the for loop: the samples (none or one) a line adds to data
ParseLine(line) ==
    LET trimmed == Trim(line)
        cleanLine == CleanLine(trimmed)
        parts == SplitWhitespace(cleanLine)
    IN  IF trimmed = <<>> THEN <<>>
        ELSE IF StartsWith(trimmed, <<"\"">>) \/ StartsWith(trimmed, <<"'">>) THEN <<>>
        ELSE IF Len(parts) >= 2
        THEN LET t == ParseFloat(parts[1])
                 v1 == ParseFloat(parts[2])
             IN  IF ~IsFinite(t) \/ ~IsFinite(v1) THEN <<>>
                 ELSE IF AbsAbove1e30(v1.val) THEN <<>>
                 ELSE LET v2 == IF Len(parts) >= 3 THEN ParseFloat(parts[3]) ELSE NaN
                          voltage ==
                              IF Len(parts) >= 3 /\ IsFinite(v2) /\ AbsBelow1e30(v2.val)
                              THEN DecHalf(DecAdd(v1.val, v2.val))
                              ELSE v1.val
                      IN  <<[time |-> t.val, voltage |-> voltage]>>
        ELSE <<>>

RECURSIVE ParseLines(_, _)
ParseLines(lines, i) ==
    IF i > Len(lines) THEN <<>> ELSE ParseLine(lines[i]) \o ParseLines(lines, i + 1)

ParseFileContent(content) == ParseLines(SplitAt(content, "\n"), 1)

\* --------------------------------------------------------------------------
\* State
\* --------------------------------------------------------------------------
VARIABLES
    sigData,      \* processSignal's rawData argument
    sigWindow,    \* its smoothingWindow argument
    sigTol,       \* its periodTolerancePct argument (a Rat)
    sigInvert,    \* its invert argument
    sigResult,    \* its return value
    sigPc,        \* "input" before the call, "done" after it
    fitPeaks,     \* fitExponentialCurve's peaks argument
    fitMean,      \* its meanVoltage argument
    fitOut,       \* what the call did: FitRun's record
    fitPc,        \* "input" before the call, "done" after it
    metPeaks,     \* the peaks of a processedData handed to the fitResults memo
    metAvg,       \* its avgPeriodUs
    metFit,       \* a fit (or null) handed to the metrics computation directly
    metOut,       \* the memo's value {fit, metrics}, or null
    metPc,        \* "input", then "results" (the whole memo) or "metrics"
    parseRows,    \* the rows of the text handed to parseFileContent
    parseOut,     \* its return value
    parsePc,      \* "input" before the call, "done" after it
    data,           \* App: the loaded trace [points |-> ...], or null
    fileName,       \* App: the name of the file selected last
    error,          \* App: the error message, or NoError
    smoothingWindow,
    periodTolerance,  \* in percent
    isInverted,
    processedData,  \* App: the processedData memo
    fitResults,     \* App: the fitResults memo
    readers,        \* the FileReaders whose read is pending
    uploads,        \* the number of files selected so far
    lastEvent,      \* history: whether reader.onload ran last, and for which file
    smValues,     \* smoothSignal's values argument
    smWindow,     \* its windowSize argument
    smOut,        \* its return value
    smReads,      \* the indices of values it read, per output element
    smBase,       \* the baseline processSignal takes from smOut: count and mean
    smPc          \* "input", "smoothed" after smoothSignal, "done" after the baseline

sigVars == <<sigData, sigWindow, sigTol, sigInvert, sigResult, sigPc>>
fitVars == <<fitPeaks, fitMean, fitOut, fitPc>>
metVars == <<metPeaks, metAvg, metFit, metOut, metPc>>
parseVars == <<parseRows, parseOut, parsePc>>
appVars == <<data, fileName, error, smoothingWindow, periodTolerance, isInverted,
             processedData, fitResults, readers, uploads, lastEvent>>
smVars == <<smValues, smWindow, smOut, smReads, smBase, smPc>>
vars == <<sigVars, fitVars, metVars, parseVars, appVars, smVars>>

\* a specification about one function leaves the other functions' variables idle
SigIdle ==
    /\ sigData = <<>> /\ sigWindow = 1 /\ sigTol = Zero /\ sigInvert = FALSE
    /\ sigResult = Null /\ sigPc = "idle"
FitIdle == fitPeaks = <<>> /\ fitMean = Zero /\ fitOut = Null /\ fitPc = "idle"
MetIdle ==
    /\ metPeaks = <<>> /\ metAvg = Zero /\ metFit = Null /\ metOut = Null
    /\ metPc = "idle"
ParseIdle == parseRows = <<>> /\ parseOut = <<>> /\ parsePc = "idle"
SmoothIdle ==
    /\ smValues = <<>> /\ smWindow = 1 /\ smOut = <<>> /\ smReads = <<>>
    /\ smBase = Null /\ smPc = "idle"

NoError == "null"
ErrNoData == "Nie znaleziono poprawnych danych numerycznych w pliku."
DefaultSmoothingWindow == 10
DefaultPeriodTolerance == 10

\* the state of App after its first render
AppInit ==
    /\ data = Null
    /\ fileName = ""
    /\ error = NoError
    /\ smoothingWindow = DefaultSmoothingWindow
    /\ periodTolerance = DefaultPeriodTolerance
    /\ isInverted = FALSE
    /\ processedData = Null
    /\ fitResults = Null
    /\ readers = {}
    /\ uploads = 0
    /\ lastEvent = [op |-> "other"]

\* --------------------------------------------------------------------------
\* Inputs of processSignal
\* --------------------------------------------------------------------------
MaxLen == 3        \* free traces: every trace of up to MaxLen samples
MaxCycles == 5     \* wave traces: up to MaxCycles low/high sample pairs

Volts == {0, 1, 3}
Steps == {-1, 2}             \* time step between samples, in microseconds
Gaps == {-10, 5, 10, 11}     \* time between two cycles of a wave, in microseconds
Windows == {1, 3}
Tolerances == {Norm(5, 100), Norm(10, 100)}

\* a sample at k microseconds (the file gives seconds) and v volts
Sample(k, v) == [time |-> DecNorm(k, -6), voltage |-> D(v)]

RECURSIVE CumSum(_, _)
CumSum(f, i) == IF i = 0 THEN 0 ELSE f[i] + CumSum(f, i - 1)

FreeTraces ==
    UNION {{[i \in 1..n |-> Sample(CumSum(ss, i - 1), vs[i])] :
                vs \in [1..n -> Volts], ss \in [1..(n - 1) -> Steps]} : n \in 0..MaxLen}

\* cycle k is a low sample one microsecond before T_k and a high one after it
WaveVolts == [lo |-> 0, hi |-> 2]
WaveTraces ==
    UNION {{[i \in 1..(2 * c) |->
                LET k == (i + 1) \div 2
                    T == CumSum(gs, k - 1)
                IN  IF i % 2 = 1 THEN Sample(T - 1, WaveVolts.lo)
                                 ELSE Sample(T + 1, WaveVolts.hi)] :
                gs \in [1..(c - 1) -> Gaps]} : c \in 1..MaxCycles}

\* traces of up to MaxHumps cycles, one sample per microsecond, each cycle one
\* of the shapes: a single high sample, a plateau, a rise to a plateau
MaxHumps == 3
Shapes == {<<0, 2>>, <<0, 2, 2, 0>>, <<0, 1, 3, 3>>}
RECURSIVE Concat(_, _)
Concat(ss, i) == IF i > Len(ss) THEN <<>> ELSE ss[i] \o Concat(ss, i + 1)
HumpTraces ==
    UNION {{LET vs == Concat(ss, 1) IN [i \in 1..Len(vs) |-> Sample(i - 1, vs[i])] :
                ss \in [1..c -> Shapes]} : c \in 1..MaxHumps}

SigInit ==
    /\ sigData \in FreeTraces \cup WaveTraces \cup HumpTraces
    /\ sigWindow \in Windows
    /\ sigTol \in Tolerances
    /\ sigInvert \in BOOLEAN
    /\ sigResult = Null
    /\ sigPc = "input"

RunProcessSignal ==
    /\ sigPc = "input"
    /\ sigResult' = ProcessSignal(sigData, sigWindow, sigTol, sigInvert)
    /\ sigPc' = "done"
    /\ UNCHANGED <<sigData, sigWindow, sigTol, sigInvert>>
    /\ UNCHANGED <<fitVars, metVars, parseVars, appVars, smVars>>

SignalInit == SigInit /\ FitIdle /\ MetIdle /\ ParseIdle /\ AppInit /\ SmoothIdle
SignalNext == RunProcessSignal
SpecSignal == SignalInit /\ [][SignalNext]_vars

\* --------------------------------------------------------------------------
\* Inputs of fitExponentialCurve and of the fitResults memo
\* --------------------------------------------------------------------------
MaxPeaks == 3      \* up to MaxPeaks peaks

PeakTimes == {0, 10}
PeakVolts == {1, 2, 4}
Baselines == {0, 2}
PeakSeqs ==
    UNION {[1..n -> {[x |-> R(t), y |-> R(v)] : t \in PeakTimes, v \in PeakVolts}] :
              n \in 0..MaxPeaks}

FitInit ==
    /\ fitPeaks \in PeakSeqs
    /\ fitMean \in {R(b) : b \in Baselines}
    /\ fitOut = Null
    /\ fitPc = "input"

RunFitExponentialCurve ==
    /\ fitPc = "input"
    /\ fitOut' = FitRun(fitPeaks, fitMean)
    /\ fitPc' = "done"
    /\ UNCHANGED <<fitPeaks, fitMean>>
    /\ UNCHANGED <<sigVars, metVars, parseVars, appVars, smVars>>

FitSpecInit == FitInit /\ SigIdle /\ MetIdle /\ ParseIdle /\ AppInit /\ SmoothIdle
FitSpecNext == RunFitExponentialCurve
SpecFit == FitSpecInit /\ [][FitSpecNext]_vars

MetPeakVolts == {2, 4}
MetPeakSeqs ==
    UNION {[1..n -> {[x |-> R(t), y |-> R(v)] : t \in PeakTimes, v \in MetPeakVolts}] :
              n \in 0..MaxPeaks}
AvgPeriods == {R(-10), Zero, R(10), R(1000)}
\* beta = -0.002 and 0.002 per microsecond, 0, and -ln(2)/10 and ln(2)/10
GivenBetas ==
    {LRat(Norm(-1, 500)), LRat(Norm(1, 500)), LZero,
     LScale(LLn(R(2)), Norm(-1, 10)), LScale(LLn(R(2)), Norm(1, 10))}
GivenFits == {Null} \cup {[A |-> LExp(LZero), beta |-> b, C |-> Zero] : b \in GivenBetas}

MetInit ==
    /\ metPeaks \in MetPeakSeqs
    /\ metAvg \in AvgPeriods
    /\ metFit \in GivenFits
    /\ metOut = Null
    /\ metPc = "input"

\* the fitResults memo on a processedData with these peaks and this period
RunFitResults ==
    /\ metPc = "input"
    /\ metOut' = FitResults([peaks |-> metPeaks, meanVoltage |-> Zero,
                             avgPeriodUs |-> metAvg])
    /\ metPc' = "results"
    /\ UNCHANGED <<metPeaks, metAvg, metFit>>
    /\ UNCHANGED <<sigVars, fitVars, parseVars, appVars, smVars>>

\* lines 274-290 of the memo for a given fit
RunDeriveMetrics ==
    /\ metPc = "input"
    /\ metOut' = [fit |-> metFit, metrics |-> DeriveMetrics(metFit, metAvg, metPeaks)]
    /\ metPc' = "metrics"
    /\ UNCHANGED <<metPeaks, metAvg, metFit>>
    /\ UNCHANGED <<sigVars, fitVars, parseVars, appVars, smVars>>

MetricsInit == MetInit /\ SigIdle /\ FitIdle /\ ParseIdle /\ AppInit /\ SmoothIdle
MetricsNext == RunFitResults \/ RunDeriveMetrics
SpecMetrics == MetricsInit /\ [][MetricsNext]_vars

\* --------------------------------------------------------------------------
\* Inputs of parseFileContent: rows with what each one means
\* --------------------------------------------------------------------------
MaxRows == 2       \* files of up to MaxRows rows

Dec(m, e) == [m |-> m, e |-> e]
Point(t, v) == [time |-> t, voltage |-> v]
Row(text, kind, sample) == [text |-> text, kind |-> kind, sample |-> sample]

\* kind: data2 a well-formed 2-column row; blank, quoted, short (one token), text
\* (a token that is no number), range2 (|voltage| > 1e30): the malformed rows of
\* a 2-column file; data3 a (time, min, max) row; range3min and range3max a
\* 3-column row whose min or max is out of range; text3 a 3-column row whose
\* third token is no number; tail a numeric token followed by other characters.
\* sample: the sample the code stores for the row (Null: none).
RowPool ==
    { Row(<<"1", " ", "2">>, "data2", Point(Dec(1, 0), Dec(2, 0))),
      Row(<<"0", ",", "5", " ", "1", ",", "5">>, "data2", Point(Dec(5, -1), Dec(15, -1))),
      Row(<<" ", "3", "\t", "-", "4", "\r">>, "data2", Point(Dec(3, 0), Dec(-4, 0))),
      Row(<<"2", "e", "-", "6", " ", "1", "e", "3", "0">>, "data2",
          Point(Dec(2, -6), Dec(1, 30))),
      Row(<<>>, "blank", Null),
      Row(<<" ", "\r">>, "blank", Null),
      Row(<<"\"", "1", " ", "2">>, "quoted", Null),
      Row(<<" ", "'", "1", " ", "2">>, "quoted", Null),
      Row(<<"5">>, "short", Null),
      Row(<<"x", " ", "1">>, "text", Null),
      Row(<<"1", " ", "x">>, "text", Null),
      Row(<<"1", " ", "I", "n", "f", "i", "n", "i", "t", "y">>, "text", Null),
      Row(<<"1", " ", "2", "e", "3", "0", "8">>, "range2", Null),
      Row(<<"1", " ", "-", "1", "e", "3", "1">>, "range2", Null),
      Row(<<"1", " ", "1", ".", "1", "e", "3", "0">>, "range2", Null),
      Row(<<"1", " ", "1", " ", "3">>, "data3", Point(Dec(1, 0), Dec(2, 0))),
      Row(<<"1", " ", "2", "e", "3", "0", "8", " ", "3">>, "range3min", Null),
      Row(<<"1", " ", "1", "e", "3", "1", " ", "3">>, "range3min", Null),
      Row(<<"1", " ", "3", " ", "2", "e", "3", "0", "8">>, "range3max",
          Point(Dec(1, 0), Dec(3, 0))),
      Row(<<"1", " ", "3", " ", "1", "e", "3", "1">>, "range3max",
          Point(Dec(1, 0), Dec(3, 0))),
      Row(<<"1", " ", "3", " ", "x">>, "text3", Point(Dec(1, 0), Dec(3, 0))),
      Row(<<"1", " ", "2", "x">>, "tail", Point(Dec(1, 0), Dec(2, 0))) }

\* the text of a file: its rows joined by line feeds
RECURSIVE JoinRows(_, _)
JoinRows(rows, i) ==
    IF i > Len(rows) THEN <<>>
    ELSE IF i = Len(rows) THEN rows[i].text
    ELSE rows[i].text \o <<"\n">> \o JoinRows(rows, i + 1)

Content(rows) == JoinRows(rows, 1)

ParseInit ==
    /\ parseRows \in UNION {[1..n -> RowPool] : n \in 0..MaxRows}
    /\ parseOut = <<>>
    /\ parsePc = "input"

RunParseFileContent ==
    /\ parsePc = "input"
    /\ parseOut' = ParseFileContent(Content(parseRows))
    /\ parsePc' = "done"
    /\ UNCHANGED parseRows
    /\ UNCHANGED <<sigVars, fitVars, metVars, appVars, smVars>>

ParserInit == ParseInit /\ SigIdle /\ FitIdle /\ MetIdle /\ AppInit /\ SmoothIdle
ParserNext == RunParseFileContent
SpecParse == ParserInit /\ [][ParserNext]_vars

\* --------------------------------------------------------------------------
\* smoothSignal and the baseline of processSignal on a series
\* --------------------------------------------------------------------------
MaxSeries == 4     \* every series of up to MaxSeries values, and the long ones

SeriesVolts == {0, 1, 3}
SmoothWindows == {1, 2, 3, 4, 5, 50}
MidLengths == {9, 10, 11}
\* long series are smoothed with a narrow window only
NarrowWindows == {1, 3}
LongLengths == {50, 54, 55, 56, 60}
\* the value of sample i of a long series: a ramp, a sawtooth, a late step
Patterns == {"ramp", "saw", "step"}
PatternValue(p, i) ==
    CASE p = "ramp" -> R(i)
      [] p = "saw" -> R(i % 3)
      [] p = "step" -> IF i > 45 THEN Norm(1, 2) ELSE R(-2)

ShortSeries == UNION {{[i \in 1..n |-> R(vs[i])] : vs \in [1..n -> SeriesVolts]} : n \in 0..MaxSeries}
MidSeries == {[i \in 1..n |-> PatternValue(p, i)] : n \in MidLengths, p \in Patterns}
LongSeries == {[i \in 1..n |-> PatternValue(p, i)] : n \in LongLengths, p \in Patterns}

SmInit ==
    /\ \/ smValues \in ShortSeries \cup MidSeries /\ smWindow \in SmoothWindows
       \/ smValues \in LongSeries /\ smWindow \in NarrowWindows
    /\ smOut = <<>>
    /\ smReads = <<>>
    /\ smBase = Null
    /\ smPc = "input"

RunSmoothSignal ==
    /\ smPc = "input"
    /\ smOut' = SmoothSignal(smValues, smWindow)
    /\ smReads' = SmoothReads(smValues, smWindow)
    /\ smPc' = "smoothed"
    /\ UNCHANGED <<smValues, smWindow, smBase>>
    /\ UNCHANGED <<sigVars, fitVars, metVars, parseVars, appVars>>

\* processSignal returns before the baseline when the trace is empty
RunBaseline ==
    /\ smPc = "smoothed"
    /\ Len(smOut) > 0
    /\ smBase' = [count |-> IMin(TailSampleCount(Len(smOut)), Len(smOut)),
                  mean |-> MeanVoltage(smOut)]
    /\ smPc' = "done"
    /\ UNCHANGED <<smValues, smWindow, smOut, smReads>>
    /\ UNCHANGED <<sigVars, fitVars, metVars, parseVars, appVars>>

SmoothInit == SmInit /\ SigIdle /\ FitIdle /\ MetIdle /\ ParseIdle /\ AppInit
SmoothNext == RunSmoothSignal \/ RunBaseline
SpecSmooth == SmoothInit /\ [][SmoothNext]_vars

\* --------------------------------------------------------------------------
\* App: files the user can select
\* --------------------------------------------------------------------------
MaxUploads == 2    \* the user selects up to MaxUploads files

DigitChar(d) == <<"0", "1", "2", "3", "4", "5", "6", "7", "8", "9">>[d + 1]
RECURSIVE IntChars(_)
IntChars(n) == IF n < 10 THEN <<DigitChar(n)>> ELSE IntChars(n \div 10) \o <<DigitChar(n % 10)>>

\* a data row: the time k microseconds written in seconds, a tab, the voltage
DataRow(k, v) == [text |-> IntChars(k) \o <<"e", "-", "6", "\t">> \o IntChars(v)]
TextRow(text) == [text |-> text]

Files ==
    { \* a header and a line of words: no sample
      [name |-> "header.txt",
       text |-> Content(<<TextRow(<<"\"", "t", "\"">>), TextRow(<<"x", " ", "y">>)>>)],
      \* two cycles: two crossings and one peak
      [name |-> "two.txt",
       text |-> Content(<<DataRow(0, 0), DataRow(2, 2), DataRow(10, 0), DataRow(12, 2)>>)],
      \* a decaying oscillation with a tail mean of 3 V: three crossings, two peaks
      [name |-> "decay.txt",
       text |-> Content(<<DataRow(0, 0), DataRow(2, 10), DataRow(10, 0), DataRow(12, 7),
                          DataRow(20, 0), DataRow(22, 4), DataRow(30, 0)>>)] }

\* parseFileContent of each file's text
ParsedFiles == [file \in Files |-> ParseFileContent(file.text)]

WindowChoices == {1, 3, 10}
ToleranceChoices == {5, 50}

\* --------------------------------------------------------------------------
\* App: the memos and the handlers
\* --------------------------------------------------------------------------
Percent == 100

\* the processedData memo (lines 262-265)
ProcessedData(d, w, tol, inv) ==
    IF d = Null THEN Null ELSE ProcessSignal(d.points, w, Norm(tol, Percent), inv)

\* a faulty variant of Render: smoothingWindow is missing from the dependencies
RenderStaleWindow ==
    /\ processedData' =
          IF <<data', periodTolerance', isInverted'>> = <<data, periodTolerance, isInverted>>
          THEN processedData
          ELSE ProcessedData(data', smoothingWindow', periodTolerance', isInverted')
    /\ fitResults' =
          IF processedData' = processedData THEN fitResults ELSE FitResults(processedData')

\* a render after the state changed: useMemo keeps a memo whose dependencies are
\* unchanged and recomputes it otherwise
Render ==
    /\ processedData' =
          IF <<data', smoothingWindow', periodTolerance', isInverted'>>
                 = <<data, smoothingWindow, periodTolerance, isInverted>>
          THEN processedData
          ELSE ProcessedData(data', smoothingWindow', periodTolerance', isInverted')
    /\ fitResults' =
          IF processedData' = processedData THEN fitResults ELSE FitResults(processedData')

\* handleFileUpload with a file chosen: the name shows at once, the read is pending
HandleFileUpload(file) ==
    /\ uploads < MaxUploads
    /\ uploads' = uploads + 1
    /\ fileName' = file.name
    /\ error' = NoError
    /\ readers' = readers \cup {[seq |-> uploads + 1, file |-> file]}
    /\ lastEvent' = [op |-> "other"]
    /\ UNCHANGED <<data, smoothingWindow, periodTolerance, isInverted>>
    /\ Render
    /\ UNCHANGED <<sigVars, fitVars, metVars, parseVars, smVars>>

\* a faulty variant of ReaderOnload: a file without samples leaves the loaded trace in place
ReaderOnloadKeepData(r) ==
    /\ r \in readers
    /\ readers' = readers \ {r}
    /\ LET parsed == ParsedFiles[r.file]
       IN  IF Len(parsed) = 0
           THEN /\ error' = ErrNoData
                /\ UNCHANGED <<data, isInverted>>
           ELSE /\ data' = [points |-> parsed]
                /\ isInverted' = FALSE
                /\ UNCHANGED error
    /\ lastEvent' = [op |-> "onload", file |-> r.file.name]
    /\ UNCHANGED <<fileName, smoothingWindow, periodTolerance, uploads>>
    /\ Render
    /\ UNCHANGED <<sigVars, fitVars, metVars, parseVars, smVars>>

\* reader.onload: the read of reader r completed
ReaderOnload(r) ==
    /\ r \in readers
    /\ readers' = readers \ {r}
    /\ LET parsed == ParsedFiles[r.file]
       IN  IF Len(parsed) = 0
           THEN /\ error' = ErrNoData
                /\ data' = Null
                /\ UNCHANGED isInverted
           ELSE /\ data' = [points |-> parsed]
                /\ isInverted' = FALSE
                /\ UNCHANGED error
    /\ lastEvent' = [op |-> "onload", file |-> r.file.name]
    /\ UNCHANGED <<fileName, smoothingWindow, periodTolerance, uploads>>
    /\ Render
    /\ UNCHANGED <<sigVars, fitVars, metVars, parseVars, smVars>>

SetSmoothingWindow(w) ==
    /\ smoothingWindow' = w
    /\ lastEvent' = [op |-> "other"]
    /\ UNCHANGED <<data, fileName, error, periodTolerance, isInverted, readers, uploads>>
    /\ Render
    /\ UNCHANGED <<sigVars, fitVars, metVars, parseVars, smVars>>

SetPeriodTolerance(tol) ==
    /\ periodTolerance' = tol
    /\ lastEvent' = [op |-> "other"]
    /\ UNCHANGED <<data, fileName, error, smoothingWindow, isInverted, readers, uploads>>
    /\ Render
    /\ UNCHANGED <<sigVars, fitVars, metVars, parseVars, smVars>>

SetIsInverted(checked) ==
    /\ isInverted' = checked
    /\ lastEvent' = [op |-> "other"]
    /\ UNCHANGED <<data, fileName, error, smoothingWindow, periodTolerance, readers, uploads>>
    /\ Render
    /\ UNCHANGED <<sigVars, fitVars, metVars, parseVars, smVars>>

Init == AppInit /\ SigIdle /\ FitIdle /\ MetIdle /\ ParseIdle /\ SmoothIdle

Next ==
    \/ \E file \in Files : HandleFileUpload(file)
    \/ \E r \in readers : ReaderOnload(r)
    \/ \E w \in WindowChoices : SetSmoothingWindow(w)
    \/ \E tol \in ToleranceChoices : SetPeriodTolerance(tol)
    \/ \E checked \in BOOLEAN : SetIsInverted(checked)

Spec == Init /\ [][Next]_vars

\* --------------------------------------------------------------------------
\* processSignal: the stages' values for the call recorded in the state
\* --------------------------------------------------------------------------
SigStages ==
    LET t_raw == TRaw(sigData)
        u_original == UOriginal(sigData, sigInvert)
        u_processed == SmoothSignal(u_original, sigWindow)
        meanVoltage == MeanVoltage(u_processed)
        rawCrossings == RawCrossings(t_raw, u_processed, meanVoltage)
        validCrossings == ValidCrossings(rawCrossings, sigTol)
    IN  [t |-> t_raw, uo |-> u_original, u |-> u_processed, mean |-> meanVoltage,
         raw |-> rawCrossings, valid |-> validCrossings,
         peaks |-> Peaks(t_raw, u_processed, meanVoltage, validCrossings)]
SigReturned == sigPc = "done" /\ sigResult # Null

\* the period from raw crossing j-1 to raw crossing j is within tolerance of Tref
PeriodOk(raw, j, tol) ==
    LET Tref == RSub(raw[2].t, raw[1].t)
        period == RSub(raw[j].t, raw[j - 1].t)
    IN  RLe(RAbs(RSub(period, Tref)), RMul(tol, Tref))

\* the returned crossings are the first n raw crossings, shifted to the first one
IsRawPrefix(z, raw) ==
    /\ Len(z) <= Len(raw)
    /\ \A k \in 1..Len(z) :
          z[k] = [t |-> RSub(raw[k].t, raw[1].t), idx |-> raw[k].idx]

ExampleTimes == <<0, 10, 20, 31, 42>>
IsExample(raw) ==
    /\ Len(raw) = Len(ExampleTimes)
    /\ \A k \in 1..Len(raw) : RSub(raw[k].t, raw[1].t) = R(ExampleTimes[k])

\* C1: with at least 2 raw crossings the first two are accepted; raw crossing
\* i >= 3 (1-based) is accepted iff every period from crossing 2 up to crossing i
\* deviates from Tref by at most tolerance * Tref (a tie keeps), so the first
\* violation ends the run; times 0,10,20,31,42 at 5% keep exactly 3 crossings.
C1_PeriodLocking ==
    SigReturned =>
        LET z == sigResult.zeroCrossings
            raw == SigStages.raw
        IN  Len(raw) >= 2 =>
            /\ Len(z) >= 2
            /\ IsRawPrefix(z, raw)
            /\ \A i \in 3..Len(raw) :
                  (i <= Len(z)) <=> (\A j \in 3..i : PeriodOk(raw, j, sigTol))
            /\ (IsExample(raw) /\ sigTol = Norm(5, 100)) => Len(z) = 3

C1_Witness ==
    /\ SigReturned
    /\ IsExample(SigStages.raw)
    /\ sigTol = Norm(5, 100)
    /\ Len(sigResult.zeroCrossings) = 3

StrictlyIncreasingT(z) == \A k \in 1..(Len(z) - 1) : RLt(z[k].t, z[k + 1].t)
SampleTimesIncrease ==
    LET t == TRaw(sigData) IN \A k \in 1..(Len(t) - 1) : RLt(t[k], t[k + 1])

\* C2 as stated: for every trace the valid crossings are a prefix of the raw ones,
\* number 0 or at least 2, and have strictly increasing times.
C2_Original ==
    SigReturned =>
        LET z == sigResult.zeroCrossings
        IN  /\ IsRawPrefix(z, SigStages.raw)
            /\ (Len(z) = 0 \/ Len(z) >= 2)
            /\ StrictlyIncreasingT(z)

\* C2 amended: for every trace the valid crossings are a prefix of the raw ones and
\* number 0 or at least 2; their times are strictly increasing when the trace's
\* sample times are strictly increasing.
C2_PrefixOrdered ==
    SigReturned =>
        LET z == sigResult.zeroCrossings
        IN  /\ IsRawPrefix(z, SigStages.raw)
            /\ (Len(z) = 0 \/ Len(z) >= 2)
            /\ SampleTimesIncrease => StrictlyIncreasingT(z)

C2_Witness ==
    /\ SigReturned
    /\ SampleTimesIncrease
    /\ Len(sigResult.zeroCrossings) >= 3
    /\ Len(sigResult.zeroCrossings) < Len(SigStages.raw)

\* C4 as stated: every non-null result has peaks.length <= zeroCrossings.length - 1.
C4_Original ==
    SigReturned => Len(sigResult.peaks) <= Len(sigResult.zeroCrossings) - 1

\* C4 amended: a result with at least one valid crossing has
\* peaks.length <= zeroCrossings.length - 1; one with none has no peaks.
C4_PeaksBound ==
    SigReturned =>
        /\ Len(sigResult.zeroCrossings) >= 1 =>
              Len(sigResult.peaks) <= Len(sigResult.zeroCrossings) - 1
        /\ Len(sigResult.zeroCrossings) = 0 => Len(sigResult.peaks) = 0

C4_Witness ==
    /\ SigReturned
    /\ Len(sigResult.zeroCrossings) >= 3
    /\ Len(sigResult.peaks) = Len(sigResult.zeroCrossings) - 1

\* C5: every non-null result reports meanVoltage 0; the first valid crossing, or
\* without one the first sample, is at time 0; one time offset and the baseline
\* are subtracted from every time, voltage, peak and crossing.
C5_Normalized ==
    SigReturned =>
        LET z == sigResult.zeroCrossings
            st == SigStages
            off == IF Len(st.valid) > 0 THEN st.valid[1].t ELSE st.t[1]
        IN  /\ sigResult.meanVoltage = Zero
            /\ Len(z) > 0 => z[1].t = Zero
            /\ Len(z) = 0 => sigResult.t[1] = Zero
            /\ Len(sigResult.t) = Len(sigData)
            /\ \A i \in 1..Len(sigData) :
                  /\ sigResult.t[i] = RSub(st.t[i], off)
                  /\ sigResult.u_raw[i] = RSub(st.uo[i], st.mean)
                  /\ sigResult.u_smooth[i] = RSub(st.u[i], st.mean)
            /\ Len(sigResult.peaks) = Len(st.peaks)
            /\ \A i \in 1..Len(st.peaks) :
                  sigResult.peaks[i] = [x |-> RSub(st.peaks[i].x, off),
                                        y |-> RSub(st.peaks[i].y, st.mean)]
            /\ Len(z) = Len(st.valid)
            /\ \A i \in 1..Len(st.valid) :
                  z[i] = [t |-> RSub(st.valid[i].t, off), idx |-> st.valid[i].idx]

C5_Witness ==
    /\ SigReturned
    /\ Len(sigResult.zeroCrossings) >= 2
    /\ Len(sigResult.peaks) >= 1
    /\ SigStages.mean # Zero
    /\ SigStages.valid[1].t # Zero

\* C5, the other case: no valid crossing, the first sample is away from time 0
C5_WitnessNoCrossing ==
    /\ SigReturned
    /\ Len(sigResult.zeroCrossings) = 0
    /\ TRaw(sigData)[1] # Zero

\* --------------------------------------------------------------------------
\* fitExponentialCurve: claims
\* --------------------------------------------------------------------------
\* the peaks strictly above C, and the least-squares sums over them
Qualifying(peaks, C) == SelectSeq(peaks, LAMBDA p : RLt(C, p.y))
SumX(q) == RSumFrom([i \in 1..Len(q) |-> q[i].x], 1, Len(q))
SumX2(q) == RSumFrom([i \in 1..Len(q) |-> RMul(q[i].x, q[i].x)], 1, Len(q))
Denominator(q) == RSub(RMul(R(Len(q)), SumX2(q)), RMul(SumX(q), SumX(q)))

RECURSIVE SumLn(_, _, _)
SumLn(q, C, i) ==
    IF i > Len(q) THEN LZero ELSE LAdd(LLn(RSub(q[i].y, C)), SumLn(q, C, i + 1))

RECURSIVE SumXLn(_, _, _)
SumXLn(q, C, i) ==
    IF i > Len(q) THEN LZero
    ELSE LAdd(LScale(LLn(RSub(q[i].y, C)), q[i].x), SumXLn(q, C, i + 1))

\* the slope and the intercept of ln(y - C) against t over q
Slope(q, C) ==
    LScale(LSub(LScale(SumXLn(q, C, 1), R(Len(q))), LScale(SumLn(q, C, 1), SumX(q))),
           RDiv(R(1), Denominator(q)))
Intercept(q, C) ==
    LScale(LSub(SumLn(q, C, 1), LScale(Slope(q, C), SumX(q))), RDiv(R(1), R(Len(q))))

\* C7: the fit is null exactly when there are fewer than 2 peaks, fewer than 2
\* peaks above C, or a zero denominator (the peaks above C all at one time);
\* otherwise C is the baseline argument and slope and intercept are those of the
\* peaks above C alone; no logarithm of a non-positive number, no division by 0.
C7_FitNullExactly ==
    fitPc = "done" =>
        LET q == Qualifying(fitPeaks, fitMean)
            res == fitOut.result
        IN  /\ res = Null <=>
                  (Len(fitPeaks) < 2 \/ Len(q) < 2 \/ Denominator(q) = Zero)
            /\ Len(q) >= 2 =>
                  (Denominator(q) = Zero <=> \A i, j \in 1..Len(q) : q[i].x = q[j].x)
            /\ res # Null =>
                  /\ res.C = fitMean
                  /\ res.beta = Slope(q, fitMean)
                  /\ res.A = LExp(Intercept(q, fitMean))
            /\ \A i \in 1..Len(fitOut.logArgs) : RLt(Zero, fitOut.logArgs[i])
            /\ \A i \in 1..Len(fitOut.divisors) : fitOut.divisors[i] # Zero

\* a fit over peaks of which one is at or below C and contributes to no sum
C7_Witness ==
    /\ fitPc = "done"
    /\ fitOut.result # Null
    /\ Len(Qualifying(fitPeaks, fitMean)) < Len(fitPeaks)
    /\ fitMean # Zero

\* --------------------------------------------------------------------------
\* metrics: claims
\* --------------------------------------------------------------------------
\* m is the metrics record the claim describes for this fit, period and peaks
MetricsAsClaimed(m, fit, avg, peaks) ==
    /\ m.validCycles = Len(peaks)
    /\ m.periodUs = avg
    /\ m.lambda \in {LScale(fit.beta, avg), LScale(fit.beta, RNeg(avg))}
    /\ LSign(m.lambda) >= 0
    /\ m.frequencyKhz = RDiv(R(1000), avg)
    /\ m.beta = LScale(m.lambda, RDiv(R(1000000), avg))
    /\ m.beta \in {LScale(fit.beta, R(1000000)), LScale(fit.beta, R(-1000000))}

\* C8: metrics exist iff a fit exists and avgPeriodUs > 0; then validCycles is the
\* number of peaks, periodUs = avgPeriodUs, logDecrement = |beta| * avgPeriodUs,
\* frequencyKhz = 1000 / avgPeriodUs, dampingCoefficient = |beta| * 1e6; period
\* 1000 and beta -0.002 give logDecrement 2 and frequencyKhz 1; beta and -beta
\* give the same metrics.
C8_Metrics ==
    /\ metPc = "metrics" =>
          /\ metOut.metrics # Null <=> (metFit # Null /\ RLt(Zero, metAvg))
          /\ metOut.metrics # Null =>
                /\ MetricsAsClaimed(metOut.metrics, metFit, metAvg, metPeaks)
                /\ metOut.metrics =
                      DeriveMetrics([metFit EXCEPT !.beta = LScale(metFit.beta, R(-1))],
                                    metAvg, metPeaks)
                /\ (metAvg = R(1000) /\ metFit.beta = LRat(Norm(-2, 1000))) =>
                      /\ metOut.metrics.lambda = LRat(R(2))
                      /\ metOut.metrics.frequencyKhz = R(1)
    /\ metPc = "results" =>
          LET fit == FitExponentialCurve(metPeaks, Zero)
              has == metOut # Null /\ metOut.metrics # Null
          IN  /\ has <=> (Len(metPeaks) >= 2 /\ fit # Null /\ RLt(Zero, metAvg))
              /\ has => /\ metOut.fit = fit
                        /\ MetricsAsClaimed(metOut.metrics, fit, metAvg, metPeaks)

\* the example of the claim: period 1000 and beta -0.002
C8_Witness ==
    /\ metPc = "metrics"
    /\ metAvg = R(1000)
    /\ metFit # Null
    /\ metFit.beta = LRat(Norm(-2, 1000))
    /\ metOut.metrics # Null
    /\ metOut.metrics.lambda = LRat(R(2))

\* metrics of the whole memo, for a fitted decay (beta a negative logarithm form)
C8_WitnessMemo ==
    /\ metPc = "results"
    /\ metOut # Null
    /\ metOut.metrics # Null
    /\ LSign(metOut.fit.beta) < 0

\* --------------------------------------------------------------------------
\* parseFileContent: claims
\* --------------------------------------------------------------------------
\* the samples of the rows whose kind is in kinds, in file order
RECURSIVE SamplesOf(_, _, _)
SamplesOf(rows, kinds, i) ==
    IF i > Len(rows) THEN <<>>
    ELSE IF rows[i].kind \in kinds
         THEN <<rows[i].sample>> \o SamplesOf(rows, kinds, i + 1)
         ELSE SamplesOf(rows, kinds, i + 1)

HasKind(rows, kinds) == \E i \in 1..Len(rows) : rows[i].kind \in kinds

MalformedKinds == {"blank", "quoted", "short", "text", "range2"}
RangeKinds == {"range2", "range3min", "range3max"}

\* C9: a 2-column file of well-formed rows interleaved with blank, quoted,
\* one-token, non-numeric and out-of-range rows parses to exactly the samples of
\* the well-formed rows, in file order.
C9_ParserRoundTrip ==
    (parsePc = "done" /\ \A i \in 1..Len(parseRows) :
                            parseRows[i].kind \in {"data2"} \cup MalformedKinds) =>
        parseOut = SamplesOf(parseRows, {"data2"}, 1)

C9_Witness ==
    /\ parsePc = "done"
    /\ Len(parseRows) >= 2
    /\ parseRows[1].kind \in MalformedKinds
    /\ parseRows[2].kind = "data2"
    /\ parseOut = <<parseRows[2].sample>>

\* C10 as stated: a row with an out-of-range voltage in any voltage column, of a
\* 2-column or a 3-column row, adds no sample.
C10_Original ==
    parsePc = "done" =>
        parseOut = SamplesOf(parseRows, {"data2", "data3", "text3", "tail"}, 1)

\* C10, what parseFileContent does: a row whose first voltage column (the second
\* token) is out of range adds no sample, in a 2-column and in a 3-column row; a
\* 3-column row whose third token is out of range is kept with the second token
\* as its voltage; no stored voltage exceeds 1e30 in magnitude.
C10_ClippedFirstVoltage ==
    parsePc = "done" =>
        /\ parseOut = SamplesOf(parseRows, {"data2", "data3", "text3", "tail", "range3max"}, 1)
        /\ \A i \in 1..Len(parseOut) :
              LET v == parseOut[i].voltage
              IN  v.m = 0 \/ SciExp(v) < 30 \/ v = Dec(1, 30) \/ v = Dec(-1, 30)

C10_Witness ==
    /\ parsePc = "done"
    /\ Len(parseRows) >= 2
    /\ parseRows[1].kind \in {"range2", "range3min"}
    /\ parseRows[2].kind = "range3max"
    /\ parseOut = <<parseRows[2].sample>>

\* --------------------------------------------------------------------------
\* App: the stages' values for the loaded trace under the current settings
\* --------------------------------------------------------------------------
AppStages ==
    LET t_raw == TRaw(data.points)
        u_original == UOriginal(data.points, isInverted)
        u_processed == SmoothSignal(u_original, smoothingWindow)
        meanVoltage == MeanVoltage(u_processed)
        rawCrossings == RawCrossings(t_raw, u_processed, meanVoltage)
        validCrossings == ValidCrossings(rawCrossings, Norm(periodTolerance, Percent))
    IN  [t |-> t_raw, uo |-> u_original, u |-> u_processed, mean |-> meanVoltage,
         raw |-> rawCrossings, valid |-> validCrossings,
         peaks |-> Peaks(t_raw, u_processed, meanVoltage, validCrossings)]

FitProduced == fitResults # Null /\ fitResults.fit # Null
FitAbsent == fitResults = Null \/ (fitResults.fit = Null /\ fitResults.metrics = Null)
FileNamed(n) == CHOOSE f \in Files : f.name = n

\* C3 as stated: whenever the application produces a fit, FitParams.C is the
\* un-normalized baseline of the loaded trace, the tail mean of its smoothed series.
C3_Original ==
    FitProduced => fitResults.fit.C = AppStages.mean

\* C3 amended: whenever the application produces a fit, FitParams.C is the meanVoltage
\* that processSignal reports, which is 0, the baseline in the normalized frame
\* (the peaks handed to the fit have the tail mean subtracted already); the fit
\* is the one fitExponentialCurve returns for that fixed C.
C3_BaselineNormalized ==
    FitProduced =>
        /\ fitResults.fit.C = processedData.meanVoltage
        /\ fitResults.fit.C = Zero
        /\ fitResults.fit = FitExponentialCurve(processedData.peaks, Zero)
        /\ \A i \in 1..Len(processedData.peaks) :
              processedData.peaks[i].y = RSub(AppStages.peaks[i].y, AppStages.mean)

\* a fit for a trace whose un-normalized baseline is 3 V
C3_Witness ==
    /\ FitProduced
    /\ data # Null
    /\ AppStages.mean = R(3)
    /\ Len(processedData.peaks) = 2

\* C6: (1) when the read of a file without samples completes, the error is
\* set, data is null, and there is no processed result, fit or metrics
\* (processSignal of an empty trace is null); (2) a loaded trace with fewer than
\* 2 raw rising crossings has a processed result with the normalized raw and
\* smoothed series at the trace's length, no crossings, no peaks, avgPeriodUs 0,
\* and no fit or metrics; (3) a loaded trace with at least 2 valid crossings and
\* fewer than 2 peaks above the baseline has a processed result with the
\* crossings and the series, and no fit or metrics.
C6_FailureShortCircuit ==
    /\ ProcessSignal(<<>>, smoothingWindow, Norm(periodTolerance, Percent), isInverted) = Null
    /\ (lastEvent.op = "onload" /\ Len(ParsedFiles[FileNamed(lastEvent.file)]) = 0) =>
          /\ error = ErrNoData
          /\ data = Null
          /\ processedData = Null
          /\ fitResults = Null
    /\ data = Null => (processedData = Null /\ fitResults = Null)
    /\ data # Null =>
          LET st == AppStages
              n == Len(data.points)
              series ==
                  /\ processedData # Null
                  /\ Len(processedData.t) = n
                  /\ processedData.u_raw = [i \in 1..n |-> RSub(st.uo[i], st.mean)]
                  /\ processedData.u_smooth = [i \in 1..n |-> RSub(st.u[i], st.mean)]
          IN  /\ n > 0
              /\ Len(st.raw) < 2 =>
                    /\ series
                    /\ processedData.zeroCrossings = <<>>
                    /\ processedData.peaks = <<>>
                    /\ processedData.avgPeriodUs = Zero
                    /\ fitResults = Null
              /\ (Len(st.valid) >= 2
                      /\ Len(Qualifying(processedData.peaks, processedData.meanVoltage)) < 2) =>
                    /\ series
                    /\ Len(processedData.zeroCrossings) = Len(st.valid)
                    /\ \A i \in 1..Len(st.valid) :
                          /\ processedData.zeroCrossings[i].idx = st.valid[i].idx
                          /\ processedData.zeroCrossings[i].t = RSub(st.valid[i].t, st.valid[1].t)
                    /\ FitAbsent

\* a file without samples read after a trace was loaded: the trace is gone
C6_Witness ==
    /\ lastEvent.op = "onload"
    /\ lastEvent.file = "header.txt"
    /\ fileName = "decay.txt"
    /\ uploads = 2
    /\ readers = {}
    /\ data = Null
    /\ error = ErrNoData

\* a loaded trace that the smoothing flattens: no crossing
C6_WitnessNoCrossing ==
    /\ data # Null
    /\ Len(AppStages.raw) < 2
    /\ processedData # Null
    /\ Len(processedData.u_smooth) = 7

\* a loaded trace with two valid crossings and one peak
C6_WitnessOnePeak ==
    /\ data # Null
    /\ Len(AppStages.valid) = 2
    /\ Len(processedData.peaks) = 1
    /\ fitResults = Null

\* --------------------------------------------------------------------------
\* smoothSignal and the baseline
\* --------------------------------------------------------------------------
\* the mean of s over the 1-based indices lo..hi: numerators over a common
\* denominator, summed index by index
RECURSIVE LcmOf(_, _, _)
LcmOf(s, lo, hi) ==
    IF hi < lo THEN 1
    ELSE LET l == LcmOf(s, lo, hi - 1) IN (l \div GCD(l, s[hi][2])) * s[hi][2]
RECURSIVE NumSum(_, _, _, _)
NumSum(s, lo, hi, den) ==
    IF hi < lo THEN 0 ELSE NumSum(s, lo, hi - 1, den) + s[hi][1] * (den \div s[hi][2])
MeanOver(s, lo, hi) ==
    LET den == LcmOf(s, lo, hi) IN Norm(NumSum(s, lo, hi, den), den * (hi - lo + 1))

\* C11: smoothSignal returns a series of the input's length whose element i
\* (0-based) is the mean of the input over max(0, i - floor(W/2)) ..
\* min(L-1, i + floor(W/2)); it reads exactly those indices, all within [0, L);
\* with W = 1 the input is returned element for element.
C11_Smoothing ==
    smPc \in {"smoothed", "done"} =>
        LET L == Len(smValues)
            h == smWindow \div 2
        IN  /\ Len(smOut) = L
            /\ \A i \in 0..(L - 1) :
                  /\ smOut[i + 1] = MeanOver(smValues, IMax(0, i - h) + 1, IMin(L - 1, i + h) + 1)
                  /\ smWindow > 1 =>
                        /\ smReads[i + 1] = IMax(0, i - h)..IMin(L - 1, i + h)
                        /\ smReads[i + 1] \subseteq 0..(L - 1)
                        /\ smReads[i + 1] # {}
            /\ smWindow = 1 => smOut = smValues

\* a series shorter than the window: the window shrinks at both edges
C11_Witness ==
    /\ smPc = "smoothed"
    /\ smWindow = 5
    /\ smValues = <<R(0), R(3), R(1), R(3)>>
    /\ smOut = <<Norm(4, 3), Norm(7, 4), Norm(7, 4), Norm(7, 3)>>

\* C11, the identity: window 1 on a long series
C11_WitnessIdentity ==
    /\ smPc = "smoothed"
    /\ smWindow = 1
    /\ Len(smValues) = 60
    /\ smOut = smValues

\* C12: the baseline is the mean of the last max(floor(n / 5), 10) samples of
\* the smoothed series, all n of them when that exceeds n; it is a mean over at
\* least one sample for every n >= 1.
C12_BaselineTail ==
    smPc = "done" =>
        LET n == Len(smOut)
            k == IMax(n \div 5, 10)
            first == IMax(1, n - k + 1)
        IN  /\ n >= 1
            /\ smBase.count = n - first + 1
            /\ smBase.count >= 1
            /\ smBase.mean = MeanOver(smOut, first, n)

\* 55 samples: the tail is 11 samples, and they differ from the last 10
C12_Witness ==
    /\ smPc = "done"
    /\ Len(smOut) = 55
    /\ smBase.count = 11
    /\ smBase.mean # MeanOver(smOut, 46, 55)

\* C12, a series shorter than 10 samples: the baseline is the mean of all of it
C12_WitnessShort ==
    /\ smPc = "done"
    /\ Len(smOut) = 3
    /\ smBase.count = 3
    /\ smBase.mean # Zero

\* C13: after any sequence of file loads and setting changes the processed
\* result (series, crossings, peaks, average period) and the fit and metrics
\* held by App are those of the pipeline run from scratch on the current
\* (trace, window, tolerance, invert); the loaded trace is still exactly what
\* parseFileContent returned for one of the selected files.
C13_Recomputed ==
    /\ processedData = ProcessedData(data, smoothingWindow, periodTolerance, isInverted)
    /\ fitResults = FitResults(processedData)
    /\ data # Null =>
          /\ \E file \in Files : data.points = ParsedFiles[file]
          /\ processedData # Null
          /\ processedData.zeroCrossings =
                [i \in 1..Len(AppStages.valid) |->
                    [t |-> RSub(AppStages.valid[i].t, AppStages.valid[1].t),
                     idx |-> AppStages.valid[i].idx]]
          /\ Len(processedData.peaks) = Len(AppStages.peaks)

\* two files loaded, then window, tolerance and inversion changed: a fit of the
\* inverted trace, which has only two valid crossings at the initial tolerance
C13_Witness ==
    /\ uploads = 2
    /\ readers = {}
    /\ lastEvent.op = "other"
    /\ data # Null
    /\ smoothingWindow = 1
    /\ periodTolerance = 50
    /\ isInverted
    /\ FitProduced
    /\ Len(ProcessedData(data, 1, DefaultPeriodTolerance, TRUE).zeroCrossings) = 2

\* what App holds when the file named fileName is the one loaded
MatchesDisplayedFile ==
    LET parsed == ParsedFiles[FileNamed(fileName)]
    IN  IF Len(parsed) = 0
        THEN data = Null /\ error = ErrNoData
        ELSE data # Null /\ data.points = parsed /\ error = NoError

\* C14 as stated: once the reads of two files selected one after the other have
\* both completed, in either order, the data and the error are those of the file
\* selected last, whose name is displayed.
C14_Original ==
    (uploads = 2 /\ readers = {}) => MatchesDisplayedFile

\* C14, the data only: once both reads have completed the loaded trace is that
\* of the file selected last.
C14_OriginalData ==
    (uploads = 2 /\ readers = {} /\ data # Null) =>
        data.points = ParsedFiles[FileNamed(fileName)]

\* both reads completed, the one of the file selected first completed last: its
\* trace is loaded under the name of the other file
C14_Witness ==
    /\ uploads = 2
    /\ readers = {}
    /\ fileName = "decay.txt"
    /\ lastEvent = [op |-> "onload", file |-> "two.txt"]
    /\ data # Null
    /\ data.points = ParsedFiles[FileNamed("two.txt")]
    /\ error = NoError

\* the 1-based index of the earliest maximum of u over lo..hi
EarliestMax(u, lo, hi) ==
    CHOOSE j \in lo..hi :
        /\ \A m \in lo..hi : RLe(u[m], u[j])
        /\ \A m \in lo..(j - 1) : RLt(u[m], u[j])

\* C15: with at least 2 valid crossings there is exactly one peak per pair of
\* consecutive valid crossings (peaks.length = zeroCrossings.length - 1);
\* consecutive crossings are at least 2 sample indices apart, the peak of a pair
\* is the sample at the earliest index attaining the maximum of the smoothed
\* series over the inclusive index range of the pair, that index lies strictly
\* between the two crossings' indices, and it is above the baseline.
C15_OnePeakPerInterval ==
    SigReturned =>
        LET st == SigStages
            v == st.valid
        IN  Len(v) >= 2 =>
            /\ Len(sigResult.peaks) = Len(sigResult.zeroCrossings) - 1
            /\ Len(st.peaks) = Len(v) - 1
            /\ \A i \in 1..(Len(v) - 1) :
                  LET lo == v[i].idx + 1
                      hi == v[i + 1].idx + 1
                      j == EarliestMax(st.u, lo, hi)
                  IN  /\ hi >= lo + 2
                      /\ lo < j /\ j < hi
                      /\ RLt(st.mean, st.u[j])
                      /\ st.peaks[i] = [x |-> st.t[j], y |-> st.u[j]]
                      /\ sigResult.peaks[i].y = RSub(st.u[j], st.mean)

\* three valid crossings, the maximum between the first two attained twice
C15_Witness ==
    /\ SigReturned
    /\ Len(sigResult.zeroCrossings) = 3
    /\ Len(sigResult.peaks) = 2
    /\ LET st == SigStages
           lo == st.valid[1].idx + 1
           hi == st.valid[2].idx + 1
       IN  \E j, m \in lo..hi : j < m /\ st.u[j] = st.u[m]
                                   /\ \A q \in lo..hi : RLe(st.u[q], st.u[j])

\* Tref of the returned crossings and the deviation bound tolerancePct * Tref
ResultTref(z) == RSub(z[2].t, z[1].t)
WithinOfTref(x, z) == RLe(RAbs(RSub(x, ResultTref(z))), RMul(sigTol, ResultTref(z)))
AvgIsSpanOverCount(z) ==
    sigResult.avgPeriodUs = RDiv(RSub(z[Len(z)].t, z[1].t), R(Len(z) - 1))

\* C16 as stated: with at least 2 valid crossings avgPeriodUs is
\* (last time - first time) / (count - 1), every successive period deviates from
\* Tref by at most tolerancePct * Tref and so does avgPeriodUs; with fewer than 2
\* valid crossings avgPeriodUs is 0.
C16_Original ==
    SigReturned =>
        LET z == sigResult.zeroCrossings
        IN  /\ Len(z) >= 2 =>
                  /\ AvgIsSpanOverCount(z)
                  /\ \A k \in 1..(Len(z) - 1) : WithinOfTref(RSub(z[k + 1].t, z[k].t), z)
                  /\ WithinOfTref(sigResult.avgPeriodUs, z)
            /\ Len(z) < 2 => sigResult.avgPeriodUs = Zero

\* C16 amended: with at least 2 valid crossings avgPeriodUs is
\* (last time - first time) / (count - 1); when Tref >= 0 every successive period
\* and avgPeriodUs deviate from Tref by at most tolerancePct * Tref; when Tref < 0
\* exactly the first two crossings are valid and avgPeriodUs = Tref; with fewer
\* than 2 valid crossings avgPeriodUs is 0.
C16_AvgPeriod ==
    SigReturned =>
        LET z == sigResult.zeroCrossings
        IN  /\ Len(z) >= 2 =>
                  /\ AvgIsSpanOverCount(z)
                  /\ RLe(Zero, ResultTref(z)) =>
                        /\ \A k \in 1..(Len(z) - 1) :
                              WithinOfTref(RSub(z[k + 1].t, z[k].t), z)
                        /\ WithinOfTref(sigResult.avgPeriodUs, z)
                  /\ RLt(ResultTref(z), Zero) =>
                        /\ Len(z) = 2
                        /\ sigResult.avgPeriodUs = ResultTref(z)
            /\ Len(z) < 2 => sigResult.avgPeriodUs = Zero

\* at least 3 valid crossings with unequal periods: the average differs from Tref
C16_Witness ==
    /\ SigReturned
    /\ Len(sigResult.zeroCrossings) >= 3
    /\ RLt(Zero, ResultTref(sigResult.zeroCrossings))
    /\ sigResult.avgPeriodUs # ResultTref(sigResult.zeroCrossings)

\* two valid crossings whose times go backwards: Tref and avgPeriodUs are negative
C16_WitnessBackwards ==
    /\ SigReturned
    /\ Len(sigResult.zeroCrossings) = 2
    /\ Len(SigStages.raw) >= 3
    /\ RLt(sigResult.avgPeriodUs, Zero)

=============================================================================
